---- MODULE Spec2Model ----
(***************************************************************************)
(* file2afsk: a file is cut into numbered chunks, each chunk is wrapped in *)
(* an AX.25 UI frame and a KISS transport frame (tx.py); the receiver      *)
(* (rx.py) delimits KISS frames byte by byte, validates them and rebuilds  *)
(* one artifact per file identifier.                                       *)
(*                                                                         *)
(* Bytes are integers 0..255, byte strings and text strings are sequences  *)
(* of integers (text: character codes).                                    *)
(***************************************************************************)
EXTENDS Integers, Sequences, FiniteSets, TLC

(***************************************************************************)
(* Program constants                                                       *)
(***************************************************************************)
FEND == 192
FESC == 219
TFEND == 220
TFESC == 221

\* args.max must lie in 16..2048 (tx.py:46, rx.py:35)
MinMaxInfo == 16

\* frame_num.to_bytes(2, 'big') accepts 0 .. 65535 only
SeqLimit == 65536

SPACE == 32
NUL == 0

\* an unset marker that is also the value of a byte
None_abyte == NUL

\* command_byte = None
None == -1

SRC_CALL == <<65, 66, 67>>
CTRL_PID == <<3, 240>>
PLACEHOLDER_SRC == <<85, 78, 75, 78, 79, 87, 78>>
PLACEHOLDER_ID == <<88, 88>>
NAME_PREFIX == <<114, 101, 99, 101, 105, 118, 101, 100, 95, 102, 114, 111, 109, 95>>
NAME_SEP == <<95>>
NAME_SUFFIX == <<46, 98, 105, 110>>

(***************************************************************************)
(* Bounds of the model                                                     *)
(***************************************************************************)
\* largest configured chunk size explored (smallest is MinMaxInfo)
MaxInfoHi == 16
\* longest byte string given to the framing codec on its own
MaxLen == 3
\* largest sequence number carried by a frame offered to the receiver
MaxSeq == 3
\* number of bursts (frames, noise) offered to the receiver in one run
MaxBursts == 3
\* longest file transmitted end to end
MaxFileLen == 33
\* longest repeating motif a file's content is made of
PatLen == 2
\* read timeouts counted within one byte string (further ones are not counted)
MaxPolls == 2

(***************************************************************************)
(* Generic helpers on sequences                                            *)
(***************************************************************************)
Min(a, b) == IF a < b THEN a ELSE b
Max_last(a, b) == b

Max_first(a, b) == IF a < 0 THEN b ELSE a

Max(a, b) == IF a > b THEN a ELSE b

Fill(n, v) == [i \in 1..n |-> v]

\* Python slice s[lo:hi] with 0 <= lo, 0-based, end exclusive, clipped
Slice(s, lo, hi) == SubSeq(s, lo + 1, Min(hi, Len(s)))

SeqsUpTo(S, n) == UNION {[1..k -> S] : k \in 0..n}

(***************************************************************************)
(* Framing codec                                                           *)
(***************************************************************************)
\* bytes.replace(old, new) for a one-byte pattern old
RECURSIVE Replace(_, _, _)
Replace(data, old, new) ==
  IF data = <<>> THEN <<>>
  ELSE (IF Head(data) = old THEN new ELSE <<Head(data)>>)
       \o Replace(Tail(data), old, new)

kiss_escape_swapped(data) ==
  Replace(Replace(data, FEND, <<FESC, TFEND>>), FESC, <<FESC, TFESC>>)

kiss_escape_nofend(data) ==
  Replace(data, FESC, <<FESC, TFESC>>)

kiss_escape(data) ==
  Replace(Replace(data, FESC, <<FESC, TFESC>>), FEND, <<FESC, TFEND>>)

\* the while loop of unescape_kiss, i is 0-based
RECURSIVE UnescapeFrom(_, _, _)
UnescapeFrom(data, i, unescaped) ==
  IF i >= Len(data) THEN unescaped
  ELSE IF data[i + 1] = FESC
       THEN IF i + 1 >= Len(data) THEN unescaped
            ELSE IF data[i + 2] = TFESC
                 THEN UnescapeFrom(data, i + 2, Append(unescaped, FESC))
                 ELSE IF data[i + 2] = TFEND
                      THEN UnescapeFrom(data, i + 2, Append(unescaped, FEND))
                      ELSE UnescapeFrom(data, i + 2, unescaped)
       ELSE UnescapeFrom(data, i + 1, Append(unescaped, data[i + 1]))

unescape_kiss(data) == UnescapeFrom(data, 0, <<>>)

kiss_frame_of(frame) == <<FEND, 0>> \o kiss_escape(frame) \o <<FEND>>

(***************************************************************************)
(* Address codec                                                           *)
(***************************************************************************)
\* str.upper() on ASCII
Upper(c) == IF c >= 97 /\ c <= 122 THEN c - 32 ELSE c

\* str.ljust(n): pad with spaces on the right
Ljust(s, n) == IF Len(s) >= n THEN s ELSE s \o Fill(n - Len(s), SPACE)

\* bytes.ljust(n, b'\x00')
LjustZero(s, n) == IF Len(s) >= n THEN s ELSE s \o Fill(n - Len(s), 0)

call_padded_noupper(call) ==
  SubSeq(Ljust(call, 6), 1, 6) \o <<SPACE>>

call_padded(call) ==
  LET u == [i \in 1..Len(Ljust(call, 6)) |-> Upper(Ljust(call, 6)[i])]
  IN  SubSeq(u, 1, 6) \o <<SPACE>>

\* (ord(' ') << 1) | 0x60 is 0x60, last sets bit 0
ssid_of(last) == IF last THEN 97 ELSE 96

ax25_address(call, last) ==
  [i \in 1..6 |-> call_padded(call)[i] * 2] \o <<ssid_of(last)>>

\* str.isspace() on the characters chr(0) .. chr(127)
IsSpace(c) == c \in {9, 10, 11, 12, 13, 28, 29, 30, 31, 32}

RECURSIVE LStrip(_)
LStrip(s) == IF s # <<>> /\ IsSpace(Head(s)) THEN LStrip(Tail(s)) ELSE s

RECURSIVE RStrip(_)
RStrip(s) ==
  IF s # <<>> /\ IsSpace(s[Len(s)]) THEN RStrip(SubSeq(s, 1, Len(s) - 1)) ELSE s

Strip(s) == RStrip(LStrip(s))

\* ''.join(chr(c >> 1) for c in field[:6]).strip()
decode_label(field) ==
  Strip([i \in 1..Min(6, Len(field)) |-> field[i] \div 2])

(***************************************************************************)
(* State                                                                   *)
(***************************************************************************)
VARIABLES
  codec,             \* the framing / address codec applied to one input on its own
  MAX_INFO,          \* --max, the same value at the transmitter and the receiver
  FILE_ID,           \* tx: generate_file_id_from_filename(basename)
  data,              \* tx: the file, [len |-> n, pat |-> motif]: byte i is pat[i % Len(pat)]
  frame_num,         \* tx: number of the next frame
  offset,            \* tx: file offset of the next chunk
  tx_pc,             \* tx: "off", "start", "send", "closed", "crashed"
  recorder,          \* tx: the audio-capture tool sox is "present" or "absent"
  wav_process,       \* tx: "none", then "running", then "stopped"
  sent,              \* the byte string last written to the channel
  chan,              \* bytes written to the channel and not yet read by the receiver
  bursts,            \* number of byte strings written to the channel so far
  timeouts,          \* read timeouts that interrupted the current byte string
  delivered,         \* the frames of one transfer delivered so far, as a set
  in_frame,          \* rx: parser inside a transport frame
  command_byte,      \* rx: captured control byte, None before it is seen
  frame_data,        \* rx: bytes collected after the control byte
  active_transfers,  \* rx: file identifier -> reassembly context
  disk,              \* rx: output path -> content of the artifact
  rx_pc,             \* rx: "loop" while the receive loop runs, then "exited"
  rx_sock,           \* rx: the connection, "open" or "closed"
  report,            \* rx: the lines of the final listing, [filename, exists]
  event              \* rx: what the last loop iteration did

vars == <<codec, MAX_INFO, FILE_ID, data, frame_num, offset, tx_pc, recorder,
          wav_process, sent, chan, bursts, timeouts, delivered, in_frame,
          command_byte, frame_data, active_transfers, disk, rx_pc, rx_sock,
          report, event>>

txvars == <<FILE_ID, data, frame_num, offset, tx_pc, recorder, wav_process>>
rxvars == <<in_frame, command_byte, frame_data, active_transfers, disk, rx_pc,
            rx_sock, report, event>>

\* kind: what the iteration did; for a frame handed to reassembly also the decoded
\* identifier and sequence number, whether a context was created and whether
\* an exception was raised (and caught) before the report
NoEvent == [kind |-> "none", file_id |-> <<>>, frame_num |-> -1, created |-> FALSE,
            raised |-> FALSE]
NoCodec == [op |-> "off", stage |-> "off", b |-> <<>>, esc |-> <<>>, out |-> <<>>,
            kf |-> <<>>, call |-> <<>>, last |-> FALSE, addr |-> <<>>, label |-> <<>>]

(***************************************************************************)
(* Transmitter: frame builder                                              *)
(***************************************************************************)
\* data[lo:hi] of the file
FileSlice(d, lo, hi) ==
  [i \in 1..(Min(hi, d.len) - lo) |-> d.pat[((lo + i - 1) % Len(d.pat)) + 1]]

\* frame_num.to_bytes(2, 'big'), defined for n < SeqLimit
seq_bytes(n) == <<n \div 256, n % 256>>

\* dest_addr + src_addr + b'\x03\xf0' + payload
link_frame(dest_addr, src_addr, ctrl_pid, payload) ==
  dest_addr \o src_addr \o ctrl_pid \o payload

(***************************************************************************)
(* Receiver: frame validation and reassembly                               *)
(***************************************************************************)
FrameOk_nosentinel(cmd, raw_frame) ==
  /\ cmd = 0
  /\ Len(raw_frame) >= 18

\* the three checks that discard a frame before it is decomposed
FrameOk(cmd, raw_frame) ==
  /\ cmd = 0
  /\ Len(raw_frame) >= 18
  /\ Slice(raw_frame, 14, 16) = CTRL_PID

\* int.from_bytes(payload[0:2], 'big')
seq_of(payload) == payload[1] * 256 + payload[2]

normalize_notrunc(chunk, S) == LjustZero(chunk, S)

\* pad a short chunk with zero bytes, cut a long one
normalize(chunk, S) ==
  IF Len(chunk) < S THEN LjustZero(chunk, S)
  ELSE IF Len(chunk) > S THEN SubSeq(chunk, 1, S)
  ELSE chunk

output_name(src_call, file_id) ==
  LET safe_src == IF src_call # <<>> THEN src_call ELSE PLACEHOLDER_SRC
      safe_file_id == IF file_id # <<>> THEN file_id ELSE PLACEHOLDER_ID
  IN  NAME_PREFIX \o safe_src \o NAME_SEP \o safe_file_id \o NAME_SUFFIX

\* open(path, 'wb') raises ValueError on a path with an embedded null character
CanOpen(path) == \A i \in 1..Len(path) : path[i] # NUL

RECURSIVE SlotsFrom(_, _, _)
SlotsFrom(transfer, i, S) ==
  IF i > transfer.highest THEN <<>>
  ELSE (IF i \in DOMAIN transfer.chunks THEN transfer.chunks[i] ELSE Fill(S, 0))
       \o SlotsFrom(transfer, i + 1, S)

\* for i in range(highest + 1): f.write(chunks.get(i, zeros))
artifact(transfer, S) == SlotsFrom(transfer, 0, S)

Put_only(f, k, v) == [x \in {k} |-> v]

Put(f, k, v) == [x \in (DOMAIN f) \cup {k} |-> IF x = k THEN v ELSE f[x]]

\* the body of the try block run on a closing delimiter: the new transfers, the
\* new disk and what happened
Finalize(at, dk, cmd, fd, S) ==
  LET raw_frame == unescape_kiss(fd)
      rejected  == [at |-> at, dk |-> dk,
                    ev |-> [NoEvent EXCEPT !.kind = "rejected"]]
  IN
  IF ~FrameOk(cmd, raw_frame) THEN rejected
  ELSE
    LET file_id  == decode_label(Slice(raw_frame, 0, 7))
        src_call == decode_label(Slice(raw_frame, 7, 14))
        payload  == Slice(raw_frame, 16, Len(raw_frame))
    IN
    IF Len(payload) < 2 THEN rejected
    ELSE
      LET num      == seq_of(payload)
          chunk    == normalize(Slice(payload, 2, Len(payload)), S)
          filename == output_name(src_call, file_id)
          isnew    == file_id \notin DOMAIN at
          at1      == IF isnew
                      THEN Put(at, file_id,
                               [chunks |-> <<>>, highest |-> -1,
                                src |-> src_call, filename |-> filename])
                      ELSE at
          isdup    == num \in DOMAIN at1[file_id].chunks
          at2      == IF isdup THEN at1
                      ELSE [at1 EXCEPT ![file_id] =
                              [@ EXCEPT !.chunks = Put(@, num, chunk),
                                        !.highest = Max(@, num)]]
          transfer == at2[file_id]
          ev       == [kind |-> IF isdup THEN "duplicate" ELSE "stored",
                       file_id |-> file_id, frame_num |-> num, created |-> isnew,
                       raised |-> FALSE]
      IN
      IF ~CanOpen(transfer.filename)
      THEN [at |-> at2, dk |-> dk, ev |-> [ev EXCEPT !.raised = TRUE]]
      ELSE [at |-> at2,
            dk |-> Put(dk, transfer.filename, artifact(transfer, S)),
            ev |-> ev]

(***************************************************************************)
(* Receive loop: one iteration per byte read                               *)
(***************************************************************************)
RxByte ==
  /\ rx_pc = "loop"
  /\ chan # <<>>
  /\ chan' = Tail(chan)
  /\ LET b == Head(chan) IN
     IF ~in_frame
     THEN IF b = FEND
          THEN /\ in_frame' = TRUE
               /\ frame_data' = <<>>
               /\ command_byte' = None
               /\ event' = [NoEvent EXCEPT !.kind = "open"]
               /\ UNCHANGED <<active_transfers, disk>>
          ELSE /\ event' = [NoEvent EXCEPT !.kind = "skip"]
               /\ UNCHANGED <<in_frame, frame_data, command_byte,
                              active_transfers, disk>>
     ELSE IF b = FEND
          THEN /\ in_frame' = FALSE
               /\ UNCHANGED <<frame_data, command_byte>>
               /\ IF Len(frame_data) > 0 /\ command_byte # None
                  THEN LET r == Finalize(active_transfers, disk, command_byte,
                                         frame_data, MAX_INFO)
                       IN  /\ active_transfers' = r.at
                           /\ disk' = r.dk
                           /\ event' = r.ev
                  ELSE /\ event' = [NoEvent EXCEPT !.kind = "empty"]
                       /\ UNCHANGED <<active_transfers, disk>>
          ELSE /\ IF command_byte = None
                  THEN /\ command_byte' = b
                       /\ event' = [NoEvent EXCEPT !.kind = "control"]
                       /\ UNCHANGED frame_data
                  ELSE /\ frame_data' = Append(frame_data, b)
                       /\ event' = [NoEvent EXCEPT !.kind = "data"]
                       /\ UNCHANGED command_byte
               /\ UNCHANGED <<in_frame, active_transfers, disk>>
  /\ UNCHANGED <<rx_pc, rx_sock, report, codec, MAX_INFO, txvars, sent, bursts,
                 timeouts, delivered>>

\* the listing printed by the finally block: one line per context, with the
\* size of its artifact if os.path.exists finds it and "(incomplete)" if not
FinalReport_none(at, dk) == {}

FinalReport(at, dk) ==
  {[filename |-> at[id].filename, exists |-> at[id].filename \in DOMAIN dk] :
     id \in DOMAIN at}

\* leaving the loop: the finally block closes the socket and prints the listing
Leave(kind) ==
  /\ rx_pc' = "exited"
  /\ rx_sock' = "closed"
  /\ report' = FinalReport(active_transfers, disk)
  /\ event' = [NoEvent EXCEPT !.kind = kind]
  /\ UNCHANGED <<in_frame, command_byte, frame_data, active_transfers, disk>>
  /\ UNCHANGED <<codec, MAX_INFO, txvars, sent, chan, bursts, timeouts, delivered>>

\* recv returns b'': break
RxEof ==
  /\ rx_pc = "loop"
  /\ chan = <<>>
  /\ Leave("eof")

\* recv raises an error for a lost connection: BrokenPipeError breaks out of
\* the loop, any other OSError propagates through the finally block
RxLost ==
  /\ rx_pc = "loop"
  /\ Leave("lost")

\* KeyboardInterrupt while the loop waits in recv
RxInterrupt ==
  /\ rx_pc = "loop"
  /\ Leave("interrupt")

\* a byte string is being read: its first byte has been read, its last has not
Interrupted == 0 < Len(chan) /\ Len(chan) < Len(sent)

\* recv raises socket.timeout: continue
RxTimeout_abort ==
  /\ rx_pc = "loop"
  /\ timeouts' = IF Interrupted THEN Min(timeouts + 1, MaxPolls) ELSE timeouts
  /\ in_frame' = FALSE
  /\ UNCHANGED <<command_byte, frame_data, active_transfers, disk, rx_pc,
                 rx_sock, report, event>>
  /\ UNCHANGED <<codec, MAX_INFO, txvars, sent, chan, bursts, delivered>>

RxTimeout ==
  /\ rx_pc = "loop"
  /\ timeouts' = IF Interrupted THEN Min(timeouts + 1, MaxPolls) ELSE timeouts
  /\ UNCHANGED rxvars
  /\ UNCHANGED <<codec, MAX_INFO, txvars, sent, chan, bursts, delivered>>

(***************************************************************************)
(* What other stations and the channel deliver to the receiver             *)
(***************************************************************************)
ID_XX == <<88, 88>>
ID_BLANK == <<>>
ID_NUL == <<65, 0>>
SRC_BLANK == <<>>
\* a second station, "DEF"
SRC_OTHER == <<68, 69, 70>>

a_frame(cmd, dest, src, ctrl_pid, num, chunk) ==
  <<FEND, cmd>>
  \o kiss_escape(link_frame(ax25_address(dest, TRUE), ax25_address(src, FALSE),
                            ctrl_pid, seq_bytes(num) \o chunk))
  \o <<FEND>>

ShortChunk == <<FEND>>
FullChunk(S) == Fill(S, 66)
LongChunk(S) == Fill(S + 1, 67)

\* frames that pass validation
ValidOffered(S) ==
     {a_frame(0, ID_XX, SRC_CALL, CTRL_PID, n, c) :
        n \in 0..MaxSeq, c \in {ShortChunk, FullChunk(S)}}
  \cup {a_frame(0, ID_BLANK, SRC_CALL, CTRL_PID, 0, c) :
        c \in {ShortChunk, FullChunk(S)}}
  \cup {a_frame(0, ID_XX, SRC_CALL, CTRL_PID, 0, c) : c \in {<<>>, LongChunk(S)}}
  \cup {a_frame(0, ID_XX, SRC_BLANK, CTRL_PID, 1, FullChunk(S))}
  \cup {a_frame(0, ID_NUL, SRC_CALL, CTRL_PID, 0, ShortChunk)}
  \cup {a_frame(0, ID_XX, SRC_OTHER, CTRL_PID, 0, ShortChunk)}

\* frames that fail one check each: control byte, length, sentinel
MalformedOffered(S) ==
  { a_frame(1, ID_XX, SRC_CALL, CTRL_PID, 0, FullChunk(S)),
    <<FEND, 0>> \o SubSeq(ax25_address(ID_XX, TRUE) \o ax25_address(SRC_CALL, FALSE)
                          \o CTRL_PID \o <<0>>, 1, 17) \o <<FEND>>,
    a_frame(0, ID_XX, SRC_CALL, <<3, 241>>, 0, FullChunk(S)) }

\* bytes outside any frame
NoiseOffered == {<<FEND>>, <<0>>}

Offered(S) == ValidOffered(S) \cup MalformedOffered(S) \cup NoiseOffered

ArriveFrom(offered) ==
  /\ rx_pc = "loop"
  /\ tx_pc = "off"
  /\ chan = <<>>
  /\ bursts < MaxBursts
  /\ \E f \in offered :
       /\ chan' = f
       /\ sent' = f
  /\ bursts' = bursts + 1
  /\ timeouts' = 0
  /\ UNCHANGED <<codec, MAX_INFO, txvars, delivered, rxvars>>

Arrive == ArriveFrom(Offered(MAX_INFO))

(***************************************************************************)
(* Receiver fed by the channel: every read returns a byte, until the end   *)
(* of the stream (timeouts and the other ways out of the loop: SpecLoop)   *)
(***************************************************************************)
RxInit ==
  /\ in_frame = FALSE
  /\ command_byte = None
  /\ frame_data = <<>>
  /\ active_transfers = <<>>
  /\ disk = <<>>
  /\ rx_pc = "loop"
  /\ rx_sock = "open"
  /\ report = {}
  /\ event = NoEvent

Init ==
  /\ codec = NoCodec
  /\ MAX_INFO \in MinMaxInfo..MaxInfoHi
  /\ FILE_ID = <<>>
  /\ data = [len |-> 0, pat |-> <<0>>]
  /\ frame_num = 0
  /\ offset = 0
  /\ tx_pc = "off"
  /\ recorder = "present"
  /\ wav_process = "none"
  /\ sent = <<>>
  /\ chan = <<>>
  /\ bursts = 0
  /\ timeouts = 0
  /\ delivered = {}
  /\ RxInit

Next == Arrive \/ RxByte \/ RxEof

Spec == Init /\ [][Next]_vars

(***************************************************************************)
(* Receive loop with every way a read can end: a byte, a timeout, end of   *)
(* stream, a lost connection, an operator interrupt                        *)
(***************************************************************************)
\* whole frames and a byte of noise: the parser is idle when each arrives
LoopOffered(S) ==
  { a_frame(0, ID_XX, SRC_CALL, CTRL_PID, 0, FullChunk(S)),
    a_frame(0, ID_XX, SRC_CALL, CTRL_PID, 1, ShortChunk),
    a_frame(0, ID_NUL, SRC_CALL, CTRL_PID, 0, ShortChunk),
    a_frame(0, ID_XX, SRC_CALL, <<3, 241>>, 0, FullChunk(S)),
    <<0>> }

ArriveLoop == ArriveFrom(LoopOffered(MAX_INFO))

NextLoop ==
  ArriveLoop \/ RxByte \/ RxTimeout \/ RxEof \/ RxLost \/ RxInterrupt

SpecLoop == Init /\ [][NextLoop]_vars

(***************************************************************************)
(* Receiver given the frames of one transfer in any order                  *)
(***************************************************************************)
\* sequence number and chunk carried by a frame built by a_frame
FrameSeq(f) == seq_of(Slice(unescape_kiss(SubSeq(f, 3, Len(f) - 1)), 16, 18))
FrameChunk(f) ==
  LET raw == unescape_kiss(SubSeq(f, 3, Len(f) - 1)) IN Slice(raw, 18, Len(raw))

\* frames of the identifier 'XX': every sequence number with a short and a
\* full chunk, and one frame that names another station
OrderOffered(S) ==
     {a_frame(0, ID_XX, SRC_CALL, CTRL_PID, n, c) :
        n \in 0..MaxSeq, c \in {ShortChunk, FullChunk(S)}}
  \cup {a_frame(0, ID_XX, SRC_OTHER, CTRL_PID, 1, ShortChunk)}

\* a frame whose sequence number has not been delivered yet arrives
ArriveOnce ==
  /\ rx_pc = "loop"
  /\ tx_pc = "off"
  /\ chan = <<>>
  /\ bursts < MaxBursts
  /\ \E f \in OrderOffered(MAX_INFO) :
       /\ \A g \in delivered : FrameSeq(g) # FrameSeq(f)
       /\ chan' = f
       /\ sent' = f
       /\ delivered' = delivered \cup {f}
  /\ bursts' = bursts + 1
  /\ timeouts' = 0
  /\ UNCHANGED <<codec, MAX_INFO, txvars, rxvars>>

NextOrder == ArriveOnce \/ RxByte \/ RxEof

SpecOrder == Init /\ [][NextOrder]_vars

(***************************************************************************)
(* Transmitter: the send loop                                              *)
(***************************************************************************)
\* sock.sendall: the bytes reach the receiver's socket, if a receiver is attached
Deliver(ch, bytes) == IF rx_pc = "off" THEN ch ELSE ch \o bytes

\* one iteration of "while offset < total_bytes"; sendall blocks until the
\* channel has taken the frame before
TxSend ==
  /\ tx_pc = "send"
  /\ offset < data.len
  /\ chan = <<>>
  /\ IF frame_num >= SeqLimit
     THEN \* to_bytes raises OverflowError, which nothing catches
          /\ tx_pc' = "crashed"
          /\ UNCHANGED <<frame_num, offset, chan, sent, bursts>>
     ELSE LET chunk_size == Min(MAX_INFO, data.len - offset)
              chunk      == FileSlice(data, offset, offset + chunk_size)
              payload    == seq_bytes(frame_num) \o chunk
              frame      == link_frame(ax25_address(FILE_ID, TRUE),
                                       ax25_address(SRC_CALL, FALSE),
                                       CTRL_PID, payload)
              kiss_frame == kiss_frame_of(frame)
          IN  /\ offset' = offset + chunk_size
              /\ chan' = Deliver(chan, kiss_frame)
              /\ sent' = kiss_frame
              /\ frame_num' = frame_num + 1
              /\ bursts' = bursts + 1
              /\ UNCHANGED tx_pc
  /\ UNCHANGED <<codec, MAX_INFO, FILE_ID, data, recorder, wav_process, timeouts,
                 delivered, rxvars>>

\* the loop is over: sock.close(), then stop_recording(wav_process)
TxClose ==
  /\ tx_pc = "send"
  /\ offset >= data.len
  /\ tx_pc' = "closed"
  /\ wav_process' = "stopped"
  /\ UNCHANGED <<codec, MAX_INFO, FILE_ID, data, frame_num, offset, recorder,
                 sent, chan, bursts, timeouts, delivered, rxvars>>

\* wav_process = start_recording(...): subprocess.Popen raises
\* FileNotFoundError when the program sox is not installed, and nothing
\* catches it
TxStart ==
  /\ tx_pc = "start"
  /\ IF recorder = "absent"
     THEN /\ tx_pc' = "crashed"
          /\ UNCHANGED wav_process
     ELSE /\ tx_pc' = "send"
          /\ wav_process' = "running"
  /\ UNCHANGED <<codec, MAX_INFO, FILE_ID, data, frame_num, offset, recorder,
                 sent, chan, bursts, timeouts, delivered, rxvars>>

FileBytes == {65, FEND, FESC, TFEND, TFESC}
Motifs == UNION {[1..k -> FileBytes] : k \in 1..PatLen}
FileIds == {<<65, 55>>}

InitE2E ==
  /\ codec = NoCodec
  /\ MAX_INFO \in MinMaxInfo..MaxInfoHi
  /\ FILE_ID \in FileIds
  /\ data \in [len : 0..MaxFileLen, pat : Motifs]
  /\ frame_num = 0
  /\ offset = 0
  /\ tx_pc = "send"
  /\ recorder = "present"
  /\ wav_process = "running"
  /\ sent = <<>>
  /\ chan = <<>>
  /\ bursts = 0
  /\ timeouts = 0
  /\ delivered = {}
  /\ RxInit

NextE2E == TxSend \/ TxClose \/ RxByte \/ RxEof

SpecE2E == InitE2E /\ [][NextE2E]_vars

(***************************************************************************)
(* Transmitter on its own: no receiver is attached                         *)
(***************************************************************************)
\* files of one chunk, of two chunks, and of one chunk more than the sequence
\* number can count
TxFileLens(S) == {1, S + 1, SeqLimit * S + 1}

InitTx ==
  /\ codec = NoCodec
  /\ MAX_INFO \in MinMaxInfo..MaxInfoHi
  /\ FILE_ID \in FileIds
  /\ \E n \in TxFileLens(MAX_INFO) : data = [len |-> n, pat |-> <<65>>]
  /\ frame_num = 0
  /\ offset = 0
  /\ tx_pc = "send"
  /\ recorder = "present"
  /\ wav_process = "running"
  /\ sent = <<>>
  /\ chan = <<>>
  /\ bursts = 0
  /\ timeouts = 0
  /\ delivered = {}
  /\ in_frame = FALSE
  /\ command_byte = None
  /\ frame_data = <<>>
  /\ active_transfers = <<>>
  /\ disk = <<>>
  /\ rx_pc = "off"
  /\ rx_sock = "off"
  /\ report = {}
  /\ event = NoEvent

NextTx == TxSend \/ TxClose

SpecTx == InitTx /\ [][NextTx]_vars

(***************************************************************************)
(* Transmitter from the start of the recording, no receiver attached       *)
(***************************************************************************)
InitStart ==
  /\ codec = NoCodec
  /\ MAX_INFO \in MinMaxInfo..MaxInfoHi
  /\ FILE_ID \in FileIds
  /\ data \in [len : 0..MaxFileLen, pat : Motifs]
  /\ frame_num = 0
  /\ offset = 0
  /\ tx_pc = "start"
  /\ recorder \in {"present", "absent"}
  /\ wav_process = "none"
  /\ sent = <<>>
  /\ chan = <<>>
  /\ bursts = 0
  /\ timeouts = 0
  /\ delivered = {}
  /\ in_frame = FALSE
  /\ command_byte = None
  /\ frame_data = <<>>
  /\ active_transfers = <<>>
  /\ disk = <<>>
  /\ rx_pc = "off"
  /\ rx_sock = "off"
  /\ report = {}
  /\ event = NoEvent

NextStart == TxStart \/ TxSend \/ TxClose

SpecStart == InitStart /\ [][NextStart]_vars

(***************************************************************************)
(* The codecs applied to one input                                         *)
(***************************************************************************)
CodecBytes == {0, 65, FEND, FESC, TFEND, TFESC}
LabelChars == {97, 122, 65, 48}

CodecEscape ==
  /\ codec.op = "kiss" /\ codec.stage = "in"
  /\ codec' = [codec EXCEPT !.stage = "escaped",
                            !.esc = kiss_escape(codec.b),
                            !.kf = kiss_frame_of(codec.b)]
  /\ UNCHANGED <<MAX_INFO, txvars, sent, chan, bursts, timeouts, delivered,
                 rxvars>>

CodecUnescape ==
  /\ codec.op = "kiss" /\ codec.stage = "escaped"
  /\ codec' = [codec EXCEPT !.stage = "done", !.out = unescape_kiss(codec.esc)]
  /\ UNCHANGED <<MAX_INFO, txvars, sent, chan, bursts, timeouts, delivered,
                 rxvars>>

CodecEncode ==
  /\ codec.op = "addr" /\ codec.stage = "in"
  /\ codec' = [codec EXCEPT !.stage = "encoded",
                            !.addr = ax25_address(codec.call, codec.last)]
  /\ UNCHANGED <<MAX_INFO, txvars, sent, chan, bursts, timeouts, delivered,
                 rxvars>>

CodecDecode ==
  /\ codec.op = "addr" /\ codec.stage = "encoded"
  /\ codec' = [codec EXCEPT !.stage = "done",
                            !.label = decode_label(SubSeq(codec.addr, 1, 6))]
  /\ UNCHANGED <<MAX_INFO, txvars, sent, chan, bursts, timeouts, delivered,
                 rxvars>>

InitCodec ==
  /\ \/ \E b \in SeqsUpTo(CodecBytes, MaxLen) :
          codec = [NoCodec EXCEPT !.op = "kiss", !.stage = "in", !.b = b]
     \/ \E call \in [1..6 -> LabelChars], last \in BOOLEAN :
          codec = [NoCodec EXCEPT !.op = "addr", !.stage = "in",
                                  !.call = call, !.last = last]
  /\ MAX_INFO = MinMaxInfo
  /\ FILE_ID = <<>>
  /\ data = [len |-> 0, pat |-> <<0>>]
  /\ frame_num = 0
  /\ offset = 0
  /\ tx_pc = "off"
  /\ recorder = "present"
  /\ wav_process = "none"
  /\ sent = <<>>
  /\ chan = <<>>
  /\ bursts = 0
  /\ timeouts = 0
  /\ delivered = {}
  /\ RxInit

NextCodec == CodecEscape \/ CodecUnescape \/ CodecEncode \/ CodecDecode

SpecCodec == InitCodec /\ [][NextCodec]_vars

(***************************************************************************)
(* Properties                                                              *)
(***************************************************************************)
Has(s, v) == \E i \in 1..Len(s) : s[i] = v

\* C2: round-trip law: unescaping the escaped form of any byte sequence b
\* gives b back.
C2_RoundTrip ==
  (codec.op = "kiss" /\ codec.stage = "done") => codec.out = codec.b

\* a sequence holding both reserved bytes has gone through both functions
C2_Witness ==
  /\ codec.op = "kiss" /\ codec.stage = "done"
  /\ Has(codec.b, FEND) /\ Has(codec.b, FESC)
  /\ codec.out = codec.b

\* C9: the escaped form of any byte sequence holds no delimiter byte, every
\* escape byte in it is followed by one of the two substitute bytes, and the
\* transport frame built around it holds the delimiter as its first and its
\* last byte only.
C9_NoBareDelimiter ==
  (codec.op = "kiss" /\ codec.stage \in {"escaped", "done"}) =>
    /\ ~Has(codec.esc, FEND)
    /\ \A i \in 1..Len(codec.esc) :
         codec.esc[i] = FESC =>
           /\ i < Len(codec.esc)
           /\ codec.esc[i + 1] \in {TFEND, TFESC}
    /\ Len(codec.kf) >= 3
    /\ \A i \in 1..Len(codec.kf) :
         (codec.kf[i] = FEND) <=> (i = 1 \/ i = Len(codec.kf))

\* an input holding the delimiter and the escape byte has been escaped
C9_Witness ==
  /\ codec.op = "kiss" /\ codec.stage = "escaped"
  /\ Has(codec.b, FEND) /\ Has(codec.b, FESC)
  /\ Len(codec.esc) = Len(codec.b) + 2

\* C8: address round-trip: decoding the packed form of a 6-character
\* alphanumeric label gives the label in upper case, whatever the last-address
\* flag; the flag byte of the two flag values differs in its low bit only.
C8_AddressRoundTrip ==
  (codec.op = "addr" /\ codec.stage = "done") =>
    /\ Len(codec.addr) = 7
    /\ codec.label = [i \in 1..6 |-> IF codec.call[i] >= 97
                                     THEN codec.call[i] - 32 ELSE codec.call[i]]
    /\ codec.addr[7] % 2 = (IF codec.last THEN 1 ELSE 0)
    /\ codec.addr[7] \div 2 = ax25_address(codec.call, ~codec.last)[7] \div 2

\* a label with lower-case letters, sent as the last address, has been decoded
C8_Witness ==
  /\ codec.op = "addr" /\ codec.stage = "done"
  /\ codec.last
  /\ codec.call = <<97, 122, 65, 48, 97, 122>>
  /\ codec.label = <<65, 90, 65, 48, 65, 90>>

\* the receiver is about to read the delimiter that closes a collected frame
ClosingFrame ==
  /\ rx_pc = "loop"
  /\ chan # <<>> /\ Head(chan) = FEND
  /\ in_frame
  /\ Len(frame_data) > 0 /\ command_byte # None

\* the link frame collected so far, and its chunk bytes as received
RawCollected == unescape_kiss(frame_data)
ChunkCollected == SubSeq(RawCollected, 19, Len(RawCollected))

Malformed ==
  \/ command_byte # 0
  \/ Len(RawCollected) < 18
  \/ SubSeq(RawCollected, 15, 16) # <<3, 240>>

\* C3: a malformed transport frame (control byte other than 0x00, fewer than 18
\* decoded bytes, or a Control+Protocol-ID other than 0x03 0xF0) creates no
\* reassembly context, changes none, writes no artifact, and the receive loop
\* keeps running after it.
C3_MalformedDropped ==
  [][(ClosingFrame /\ Malformed /\ chan' = Tail(chan)) =>
       /\ active_transfers' = active_transfers
       /\ disk' = disk
       /\ rx_pc' = "loop"]_vars

\* a frame has been rejected while a context existed
C3_Witness ==
  /\ event.kind = "rejected"
  /\ active_transfers # <<>>
  /\ command_byte = 0
  /\ Len(RawCollected) >= 18
  /\ rx_pc = "loop"

\* C7: every chunk stored in a reassembly context has exactly MAX_INFO bytes:
\* the received chunk followed by zero bytes when it was shorter (the empty
\* chunk included), its first MAX_INFO bytes when it was longer, the chunk
\* itself otherwise.
C7_StoredChunkSize ==
  /\ \A id \in DOMAIN active_transfers :
       \A n \in DOMAIN active_transfers[id].chunks :
         Len(active_transfers[id].chunks[n]) = MAX_INFO
  /\ event.kind = "stored" =>
       LET stored == active_transfers[event.file_id].chunks[event.frame_num]
           c == ChunkCollected
       IN  stored = [j \in 1..MAX_INFO |-> IF j <= Len(c) THEN c[j] ELSE 0]

\* a chunk longer than MAX_INFO has been stored
C7_Witness ==
  /\ event.kind = "stored"
  /\ Len(ChunkCollected) > MAX_INFO
  /\ active_transfers[event.file_id].chunks[event.frame_num]
       = SubSeq(ChunkCollected, 1, MAX_INFO)

\* a transport frame as the claim describes it: delimiter, control byte 0x00,
\* escaped link frame of at least 18 bytes with the sentinel, delimiter
ValidTransportFrame(f) ==
  /\ Len(f) >= 4
  /\ f[1] = FEND /\ f[2] = 0 /\ f[Len(f)] = FEND
  /\ \A i \in 2..(Len(f) - 1) : f[i] # FEND
  /\ LET raw == unescape_kiss(SubSeq(f, 3, Len(f) - 1))
     IN  Len(raw) >= 18 /\ SubSeq(raw, 15, 16) = <<3, 240>>

\* C4: every complete valid transport frame of the byte stream is handed to
\* reassembly, whatever was received before it: when the receiver reads the
\* last byte of such a frame, the frame is stored or found to be a duplicate.
C4_ValidFrameHanded ==
  [][(rx_pc = "loop" /\ Len(chan) = 1 /\ ValidTransportFrame(sent)) =>
       event'.kind \in {"stored", "duplicate"}]_vars

\* the slots the artifact of a context is made of
SlotOf(art, i, S) == SubSeq(art, i * S + 1, (i + 1) * S)

ArtifactMatches(id) ==
  LET t == active_transfers[id]
  IN  /\ t.filename \in DOMAIN disk
      /\ Len(disk[t.filename]) = (t.highest + 1) * MAX_INFO
      /\ \A i \in 0..t.highest :
           SlotOf(disk[t.filename], i, MAX_INFO)
             = IF i \in DOMAIN t.chunks THEN t.chunks[i]
               ELSE [j \in 1..MAX_INFO |-> 0]

\* C5: immediately after a chunk is accepted, the artifact of its identifier
\* consists of watermark+1 slots of MAX_INFO bytes, slot i holding the stored
\* chunk i if there is one and zero bytes otherwise.
C5_ArtifactSlots ==
  event.kind = "stored" => ArtifactMatches(event.file_id)

\* C6: a frame whose sequence number is already stored for its identifier
\* changes nothing: the stored bytes (first writer wins), the watermark, the
\* set of stored sequence numbers and the artifact content stay as they were.
C6_DuplicateChangesNothing ==
  [][(ClosingFrame /\ event'.kind = "duplicate") =>
       /\ active_transfers' = active_transfers
       /\ disk' = disk]_vars

\* C10: contexts of different file identifiers have different output paths.
C10_DistinctPaths ==
  \A f \in DOMAIN active_transfers :
    \A g \in DOMAIN active_transfers :
      f # g => active_transfers[f].filename # active_transfers[g].filename

Ceil(n, S) == (n + S - 1) \div S

\* the chunk carried by the transport frame last sent
ChunkSent == LET raw == unescape_kiss(SubSeq(sent, 3, Len(sent) - 1))
             IN  SubSeq(raw, 19, Len(raw))

\* the file as a byte string
FileContent == [i \in 1..data.len |-> data.pat[((i - 1) % Len(data.pat)) + 1]]

\* C1: end to end: a file of n > 0 bytes goes out as ceil(n/S) frames, every
\* chunk of S bytes but a possibly shorter last one, and the receiver, given
\* those frames in order, holds an artifact of ceil(n/S)*S bytes: the file
\* followed by zero bytes.
C1_EndToEnd ==
  LET n == data.len
      S == MAX_INFO
      path == output_name(SRC_CALL, FILE_ID)
  IN
  /\ (tx_pc \in {"send", "closed"} /\ frame_num > 0) =>
       Len(ChunkSent) = IF frame_num < Ceil(n, S) THEN S
                        ELSE n - (Ceil(n, S) - 1) * S
  /\ (n > 0 /\ tx_pc \in {"closed", "crashed"}) =>
       /\ frame_num = Ceil(n, S)
       /\ (rx_pc # "off" /\ chan = <<>>) =>
            /\ path \in DOMAIN disk
            /\ Len(disk[path]) = Ceil(n, S) * S
            /\ SubSeq(disk[path], 1, n) = FileContent
            /\ \A i \in (n + 1)..(Ceil(n, S) * S) : disk[path][i] = 0

\* the source-station label carried by the frame collected last
SrcCollected == decode_label(Slice(RawCollected, 7, 14))

\* C11: frames of different source stations are reassembled as separate
\* transfers, also under one file identifier: a chunk is stored in, or found
\* to be a duplicate in, a context of the station that sent it only.
C11_StationsSeparate ==
  event.kind \in {"stored", "duplicate"} =>
    active_transfers[event.file_id].src = SrcCollected

\* C12: the audio-capture tool being absent is not fatal: the transmitter
\* does not stop before the send loop, sends every frame of the file and
\* closes the connection.
C12_RecorderOptional ==
  recorder = "absent" =>
    /\ tx_pc # "crashed"
    /\ tx_pc = "closed" => frame_num = Ceil(data.len, MAX_INFO)

\* the escaped link frame between the control byte and the closing delimiter
BodySent == SubSeq(sent, 3, Len(sent) - 1)

\* C13: a read timeout changes neither the parser state (in-frame flag,
\* control byte, data buffer) nor any reassembly context, and the loop goes
\* on; a valid frame whose bytes are separated by timeouts is handed to
\* reassembly whole, with the outcome of the same frame read in one go.
C13_TimeoutHarmless ==
  [][/\ timeouts' > timeouts =>
          UNCHANGED <<in_frame, command_byte, frame_data, active_transfers,
                      disk, rx_pc, rx_sock, chan>>
     /\ (rx_pc = "loop" /\ Len(chan) = 1 /\ chan' = <<>>
           /\ ValidTransportFrame(sent)) =>
          LET r == Finalize(active_transfers, disk, 0, BodySent, MAX_INFO)
          IN  /\ event'.kind \in {"stored", "duplicate"}
              /\ active_transfers' = r.at
              /\ disk' = r.dk
              /\ event' = r.ev
              /\ in_frame' = FALSE]_vars

\* a frame interrupted by as many timeouts as are counted has been stored
C13_Witness ==
  /\ rx_pc = "loop"
  /\ chan = <<>>
  /\ ValidTransportFrame(sent)
  /\ timeouts = MaxPolls
  /\ event.kind = "stored"
  /\ event.frame_num = 1

\* C14: the loop ends on end of stream; whichever way the loop is left (end
\* of stream, lost connection, operator interrupt) the connection is closed,
\* the artifact of every reassembly context is listed, and contexts and
\* artifacts stay as they were, also in the middle of a frame.
C14_ExitKeepsEverything ==
  [][/\ (rx_pc = "loop" /\ event'.kind = "eof") => rx_pc' = "exited"
     /\ (rx_pc = "loop" /\ rx_pc' = "exited") =>
          /\ event'.kind \in {"eof", "lost", "interrupt"}
          /\ rx_sock' = "closed"
          /\ \A id \in DOMAIN active_transfers :
               \E line \in report' :
                 /\ line.filename = active_transfers[id].filename
                 /\ line.exists = (line.filename \in DOMAIN disk)
          /\ active_transfers' = active_transfers
          /\ disk' = disk
     /\ rx_pc = "exited" => rx_pc' = "exited"]_vars

\* the operator interrupted the receiver in the middle of a frame, after one
\* artifact was written and one could not be
C14_Witness ==
  /\ rx_pc = "exited"
  /\ event.kind = "interrupt"
  /\ in_frame /\ Len(frame_data) > 0
  /\ rx_sock = "closed"
  /\ disk # <<>>
  /\ Cardinality(report) = 2
  /\ \E line \in report : ~line.exists

\* the receiver reads the next byte of the channel
ReadsByte == rx_pc = "loop" /\ chan # <<>> /\ chan' = Tail(chan)

\* C15: a delimiter read inside a frame leaves the parser idle whatever the
\* outcome (empty frame, no control byte, frame rejected, frame accepted,
\* exception during finalization); the first other byte after the opening
\* delimiter becomes the control byte and does not enter the data buffer,
\* every later one is appended to the buffer; an exception raised while a
\* frame is finalized does not end the receive loop.
C15_ParserDiscipline ==
  [][/\ (ReadsByte /\ in_frame /\ Head(chan) = FEND) =>
          /\ in_frame' = FALSE
          /\ rx_pc' = "loop"
          /\ event'.kind \in {"empty", "rejected", "stored", "duplicate"}
     /\ (ReadsByte /\ event.kind = "open" /\ Head(chan) # FEND) =>
          /\ command_byte' = Head(chan)
          /\ frame_data' = <<>>
          /\ in_frame'
     /\ (ReadsByte /\ event.kind \in {"control", "data"} /\ Head(chan) # FEND) =>
          /\ command_byte' = command_byte
          /\ frame_data' = Append(frame_data, Head(chan))
          /\ in_frame'
     /\ event'.raised => (rx_pc' = "loop" /\ in_frame' = FALSE)]_vars

\* an exception was raised while a frame was finalized; the parser is idle, the
\* loop runs, and the control byte 0x00 is not in the buffer
C15_Witness ==
  /\ event.raised
  /\ in_frame = FALSE
  /\ rx_pc = "loop"
  /\ command_byte = 0
  /\ frame_data = BodySent

\* C16: when an internal error occurs while a validated frame is reassembled
\* (the artifact cannot be opened or written), the frame is dropped: every
\* reassembly context is as before the frame, none has been created, and the
\* receive loop goes on.
C16_ErrorDropsFrame ==
  [][event'.raised =>
       /\ active_transfers' = active_transfers
       /\ rx_pc' = "loop"]_vars

\* the counts of the progress line: received / total slots
Received(t) == Cardinality(DOMAIN t.chunks)
TotalFrames(t) == t.highest + 1

\* C17: in every state every reassembly context has a non-empty chunk
\* mapping, its watermark is the largest sequence number stored and never
\* decreases, and 1 <= received <= watermark+1, with equality on the right
\* exactly when no sequence number of 0..watermark is missing.
C17_WatermarkAndCounts ==
  [][\A id \in DOMAIN active_transfers' :
       LET t == active_transfers'[id]
       IN  /\ DOMAIN t.chunks # {}
           /\ t.highest \in DOMAIN t.chunks
           /\ \A n \in DOMAIN t.chunks : 0 <= n /\ n <= t.highest
           /\ 1 <= Received(t)
           /\ Received(t) <= TotalFrames(t)
           /\ (Received(t) = TotalFrames(t))
                <=> (\A i \in 0..t.highest : i \in DOMAIN t.chunks)
           /\ id \in DOMAIN active_transfers =>
                t.highest >= active_transfers[id].highest]_vars

\* a context with a gap (chunk 0 and the highest chunk offered, nothing
\* between) next to a context without a gap
C17_Witness ==
  /\ \E id \in DOMAIN active_transfers :
       /\ active_transfers[id].highest = MaxSeq
       /\ DOMAIN active_transfers[id].chunks = {0, MaxSeq}
  /\ \E id \in DOMAIN active_transfers :
       Received(active_transfers[id]) = TotalFrames(active_transfers[id])

\* the largest sequence number among the frames delivered
TopSeq == CHOOSE n \in {FrameSeq(f) : f \in delivered} :
            \A g \in delivered : FrameSeq(g) <= n

\* C18: arrival order is irrelevant: whatever the order in which frames of
\* one identifier with pairwise distinct sequence numbers arrive, once they
\* are read the chunk mapping, the watermark and the artifact content are
\* the ones the set of frames determines.
C18_OrderIrrelevant ==
  (delivered # {} /\ chan = <<>>) =>
    /\ DOMAIN active_transfers = {ID_XX}
    /\ LET t == active_transfers[ID_XX]
       IN  /\ DOMAIN t.chunks = {FrameSeq(f) : f \in delivered}
           /\ \A f \in delivered :
                t.chunks[FrameSeq(f)]
                  = [j \in 1..MAX_INFO |->
                       IF j <= Len(FrameChunk(f)) THEN FrameChunk(f)[j] ELSE 0]
           /\ t.highest = TopSeq
           /\ Len(disk[t.filename]) = (TopSeq + 1) * MAX_INFO
           /\ \A f \in delivered :
                SlotOf(disk[t.filename], FrameSeq(f), MAX_INFO)
                  = t.chunks[FrameSeq(f)]
           /\ \A i \in 0..TopSeq :
                i \notin DOMAIN t.chunks =>
                  SlotOf(disk[t.filename], i, MAX_INFO)
                    = [j \in 1..MAX_INFO |-> 0]

\* three frames have been read, the one with the lowest number last and the
\* one with the highest number first or second, with a gap between them
C18_Witness ==
  /\ Cardinality(delivered) = 3
  /\ chan = <<>>
  /\ {FrameSeq(f) : f \in delivered} = {0, 2, 3}
  /\ event.kind = "stored"
  /\ event.frame_num = 0
  /\ active_transfers[ID_XX].highest = 3

\* C19: the k-th frame sent (k from 0) carries the sequence number k in two
\* bytes, big-endian, and the file bytes [k*S, min((k+1)*S, n)); the receiver
\* decodes k from it; no chunk is skipped, however many chunks the file has.
C19_SequenceNumbers ==
  LET n == data.len
      S == MAX_INFO
      k == frame_num - 1
  IN
  /\ (tx_pc \in {"send", "closed", "crashed"} /\ frame_num > 0) =>
       /\ SubSeq(unescape_kiss(BodySent), 17, 18) = <<k \div 256, k % 256>>
       /\ FrameSeq(sent) = k
       /\ ChunkSent = FileSlice(data, k * S, (k + 1) * S)
  /\ tx_pc \in {"closed", "crashed"} => frame_num = Ceil(n, S)

\* C20: transfers are isolated in memory: a frame processed for the file
\* identifier F leaves the context of every other identifier unchanged
\* (chunks, watermark, source label, output path), no context is ever
\* removed, and the source label and output path of F's own context stay
\* those it was created with.
C20_TransfersIsolated ==
  [][\A id \in DOMAIN active_transfers :
       /\ id \in DOMAIN active_transfers'
       /\ active_transfers'[id].src = active_transfers[id].src
       /\ active_transfers'[id].filename = active_transfers[id].filename
       /\ (event'.kind \in {"stored", "duplicate"} /\ event'.file_id = id)
            \/ active_transfers'[id] = active_transfers[id]]_vars

\* with two contexts present, a further chunk of one of them has been stored
C20_Witness ==
  /\ Cardinality(DOMAIN active_transfers) >= 2
  /\ event.kind = "stored"
  /\ event.created = FALSE
  /\ Received(active_transfers[event.file_id]) >= 2

====
